---- MODULE Spec2Model ----
(***************************************************************************)
(* WeddingPlan: accounts, catalog, events and the event/service            *)
(* association, modelled from src/app.py, src/models.py and src/forms.py.  *)
(*                                                                         *)
(* The store is the set of rows of each table.  A handler that issues one  *)
(* read and one write is modelled both as a whole (the request runs alone) *)
(* and as its two database statements (requests of several clients         *)
(* interleave between the read and the commit).  Money is kept in cents,   *)
(* the scale of the Numeric(10, 2) columns; a submitted price is a float,  *)
(* kept in thousandths, and is rounded to cents when it is stored.         *)
(***************************************************************************)
EXTENDS Integers, Sequences, FiniteSets, TLC

\* ------------------------------------------------------------------ bounds

\* Browsers (sessions) that issue requests.
NumClientes == 4
\* Cap on the rows ever inserted in usuarios.
MaxUsuarios == 4
\* Cap on the rows ever inserted in evento_servicio.
MaxFilas == 2
\* Cap on the rows ever inserted in eventos.
MaxEventos == 3
\* Cap on the sum of the servicios and proveedores sequences.
MaxCatalogo == 5

Clientes == 1..NumClientes

\* Session value of a browser that is not logged in (AnonymousUserMixin).
ANONIMO == 0

Usernames == {"alice", "bob"}
Emails == {"alice@example.com", "bob@example.com"}

VARIABLES
    usuarios,        \* table usuarios: rows [id, username, email, rol, activo]
    servicios,       \* table servicios: rows [id, precio_base, disponible]
    eventos,         \* table eventos: rows [id, usuario_id, estado, titulo]
    evento_servicio, \* table evento_servicio: rows [id, evento_id, servicio_id, precio_acordado]
    sec_usuario,     \* next value of the usuarios.id sequence
    sec_fila,        \* next value of the evento_servicio.id sequence
    sesion,          \* per browser: id of the logged-in account, or ANONIMO
    pend,            \* per browser: the request that has read and not yet committed
    resp,            \* the last response sent: [op, res, errores, n]
    previo,          \* association rows as they were before the last successful attach
    proveedores,     \* table proveedores: rows [id, activo]
    sec_servicio,    \* next value of the servicios.id_servicios sequence
    sec_proveedor,   \* next value of the proveedores.id sequence
    sec_evento       \* next value of the eventos.id sequence

vars == <<usuarios, servicios, eventos, evento_servicio, sec_usuario, sec_fila,
          sesion, pend, resp, previo, proveedores, sec_servicio, sec_proveedor,
          sec_evento>>

\* ------------------------------------------------------------ seeded rows

AdminSemilla == [id |-> 1, username |-> "admin", email |-> "admin@example.com",
                 rol |-> "admin", activo |-> TRUE]
AliceSemilla == [id |-> 2, username |-> "alice", email |-> "alice@example.com",
                 rol |-> "cliente", activo |-> TRUE]
BobSemilla == [id |-> 3, username |-> "bob", email |-> "bob@example.com",
               rol |-> "cliente", activo |-> TRUE]

PendNada == [op |-> "nada", username |-> "", email |-> "", evento |-> 0,
             servicio |-> 0, precio |-> 0]

RespNada == [op |-> "", res |-> "", errores |-> {}, n |-> 0]

PrevioNada == [evento |-> 0, servicio |-> 0, filas |-> {}, total |-> 0]

Respuesta(op, res, errores, n) ==
    [op |-> op, res |-> res, errores |-> errores, n |-> n]

\* ------------------------------------------------------------- identity

\* current_user of a request: the row load_user finds for the session's id.
current_user(c) == CHOOSE u \in usuarios : u.id = sesion[c]

is_authenticated(c) == sesion[c] # ANONIMO /\ \E u \in usuarios : u.id = sesion[c]

es_admin(u) == u.rol = "admin"

\* RegistroForm.validate_username: passes iff no row has the username.
validate_username(username) == ~ \E u \in usuarios : u.username = username

\* RegistroForm.validate_email: passes iff no row has the email.
validate_email(email) == ~ \E u \in usuarios : u.email = email

\* form.validate_on_submit() of RegistroForm: every field's validators run, so
\* the errors of the field validators (campos_ok = FALSE when one of them
\* rejects) and of both lookups are collected together.
RegistroForm_errores(campos_ok, username, email) ==
    (IF campos_ok THEN {} ELSE {"ValidationError"})
    \cup (IF validate_username(username) THEN {} ELSE {"DuplicateUsername"})
    \cup (IF validate_email(email) THEN {} ELSE {"DuplicateEmail"})

\* Faulty variant of UsuarioUnico: the columns carry no unique index.
UsuarioUnicoSinIndice(username, email) == TRUE

\* The unique indexes of usuarios.username and usuarios.email, as the
\* database applies them to an INSERT.
UsuarioUnico(username, email) ==
    /\ ~ \E u \in usuarios : u.username = username
    /\ ~ \E u \in usuarios : u.email = email

\* Faulty variant of NuevoUsuario: the role is not pinned to 'cliente'.
NuevoUsuarioAdmin(username, email) ==
    [id |-> sec_usuario, username |-> username, email |-> email,
     rol |-> "admin", activo |-> TRUE]

\* Usuario(...) of registro: rol is always 'cliente', activo takes its default.
NuevoUsuario(username, email) ==
    [id |-> sec_usuario, username |-> username, email |-> email,
     rol |-> "cliente", activo |-> TRUE]

\* registro, up to form.validate_on_submit(): an authenticated browser is
\* redirected; a form with errors is rendered again; a valid form goes on to
\* the INSERT.
registro_validar(c, campos_ok, username, email) ==
    /\ pend[c].op = "nada"
    /\ sec_usuario <= MaxUsuarios
    /\ IF is_authenticated(c)
       THEN /\ resp' = Respuesta("registro", "Redirect", {}, 0)
            /\ UNCHANGED pend
       ELSE LET errs == RegistroForm_errores(campos_ok, username, email) IN
            IF errs # {}
            THEN /\ resp' = Respuesta("registro", "FormError", errs, 0)
                 /\ UNCHANGED pend
            ELSE /\ pend' = [pend EXCEPT ![c] = [PendNada EXCEPT !.op = "registro",
                                  !.username = username, !.email = email]]
                 /\ UNCHANGED resp
    /\ UNCHANGED <<usuarios, servicios, eventos, evento_servicio, sec_usuario,
                   sec_fila, sesion, previo>>
    /\ UNCHANGED <<proveedores, sec_servicio, sec_proveedor, sec_evento>>

\* registro, db.session.add + db.session.commit(): the INSERT succeeds iff the
\* unique indexes admit the row; otherwise commit raises IntegrityError, which
\* registro does not catch, and the row is not stored.
registro_commit(c) ==
    /\ pend[c].op = "registro"
    /\ pend' = [pend EXCEPT ![c] = PendNada]
    /\ IF UsuarioUnico(pend[c].username, pend[c].email)
       THEN /\ usuarios' = usuarios \cup {NuevoUsuario(pend[c].username, pend[c].email)}
            /\ sec_usuario' = sec_usuario + 1
            /\ resp' = Respuesta("registro", "Ok", {}, 0)
       ELSE /\ resp' = Respuesta("registro", "IntegrityError", {}, 0)
            /\ UNCHANGED <<usuarios, sec_usuario>>
    /\ UNCHANGED <<servicios, eventos, evento_servicio, sec_fila, sesion, previo>>
    /\ UNCHANGED <<proveedores, sec_servicio, sec_proveedor, sec_evento>>

\* ---------------------------------------------- specification: registration

\* One administrator provisioned out of band; browser 1 is logged in as that
\* administrator, the others are anonymous.
InitReg ==
    /\ usuarios = {AdminSemilla}
    /\ servicios = {}
    /\ eventos = {}
    /\ evento_servicio = {}
    /\ sec_usuario = 2
    /\ sec_fila = 1
    /\ sesion = [c \in Clientes |-> IF c = 1 THEN 1 ELSE ANONIMO]
    /\ pend = [c \in Clientes |-> PendNada]
    /\ resp = RespNada
    /\ previo = PrevioNada
    /\ proveedores = {}
    /\ sec_servicio = 1
    /\ sec_proveedor = 1
    /\ sec_evento = 1

NextReg ==
    \/ \E c \in Clientes, ok \in BOOLEAN, u \in Usernames, e \in Emails :
          registro_validar(c, ok, u, e)
    \/ \E c \in Clientes : registro_commit(c)

SpecReg == InitReg /\ [][NextReg]_vars

\* ------------------------------------------------------------ access policy

\* login_required: an anonymous browser is sent to the login page.
login_required(c) == is_authenticated(c)

\* Faulty variant of admin_required: the role is not tested.
admin_required_sin_rol(c) ==
    IF ~ is_authenticated(c) THEN "LoginRequired" ELSE "Pasa"

\* admin_required: "LoginRequired" for an anonymous browser, "Forbidden" for an
\* authenticated account that is not an administrator, "Pasa" otherwise.
admin_required(c) ==
    IF ~ is_authenticated(c) THEN "LoginRequired"
    ELSE IF ~ es_admin(current_user(c)) THEN "Forbidden"
    ELSE "Pasa"

\* The ownership test each event handler repeats inline; TRUE = admitted.
ver_permitido(ev, u) == ~ (ev.usuario_id # u.id /\ ~ es_admin(u))

editar_permitido(ev, u) == ~ (ev.usuario_id # u.id /\ ~ es_admin(u))

\* Faulty variant of cancelar_permitido: the administrator's exemption is left out.
cancelar_solo_dueno(ev, u) == ~ (ev.usuario_id # u.id)

cancelar_permitido(ev, u) == ~ (ev.usuario_id # u.id /\ ~ es_admin(u))

agregar_permitido(ev, u) == ~ (ev.usuario_id # u.id /\ ~ es_admin(u))

eliminar_permitido(ev, u) == ~ (ev.usuario_id # u.id /\ ~ es_admin(u))

\* Evento.query.get / Servicio.query.get
ExisteEvento(id) == \E ev \in eventos : ev.id = id

EventoDe(id) == CHOOSE ev \in eventos : ev.id = id

ExisteServicio(id) == \E sv \in servicios : sv.id = id

\* ------------------------------------------------------------------ pricing

\* A float written to a Numeric(10, 2) column: thousandths rounded to cents,
\* halves away from zero.
Numeric2(milesimas) ==
    IF milesimas >= 0 THEN (milesimas + 5) \div 10
    ELSE - ((5 - milesimas) \div 10)

\* Evento.servicios_contratados: the rows whose evento_id is the event's id.
servicios_contratados(ev) == {f \in evento_servicio : f.evento_id = ev.id}

RECURSIVE SumaPrecios(_)
\* sum(es.precio_acordado for es in filas), from 0.
SumaPrecios(filas) ==
    IF filas = {} THEN 0
    ELSE LET f == CHOOSE x \in filas : TRUE
         IN f.precio_acordado + SumaPrecios(filas \ {f})

\* Faulty variant of calcular_total: adds the catalog prices of the attached services.
calcular_total_base(ev) ==
    SumaPrecios({[id |-> f.id,
                  precio_acordado |->
                      (CHOOSE x \in servicios : x.id = f.servicio_id).precio_base] :
                 f \in servicios_contratados(ev)})

\* Evento.calcular_total
calcular_total(ev) == SumaPrecios(servicios_contratados(ev))

\* ------------------------------------------------- attach / detach a service

\* An optional form value: <<>> when the field is missing or does not parse,
\* <<v>> otherwise.  Python's "not x" holds for None and for 0.
Falsy(x) == x = <<>> \/ x[1] = 0

\* Faulty variant of existe: the service id is passed for both columns.
existe_cruzado(ev_id, sv_id) ==
    \E f \in evento_servicio : f.evento_id = sv_id /\ f.servicio_id = sv_id

\* "existe" of cliente_agregar_servicio: filter_by(evento_id, servicio_id)
\* .first() found a row.
existe(ev_id, sv_id) ==
    \E f \in evento_servicio : f.evento_id = ev_id /\ f.servicio_id = sv_id

\* cliente_agregar_servicio up to the existence check: the response that ends
\* the request, or "Insertar" when it goes on to the INSERT.
agregar_verificar(c, ev_id, sv, pr) ==
    IF ~ login_required(c) THEN "LoginRequired"
    ELSE IF ~ ExisteEvento(ev_id) THEN "NotFound"
    ELSE IF ~ agregar_permitido(EventoDe(ev_id), current_user(c)) THEN "Forbidden"
    ELSE IF Falsy(sv) \/ Falsy(pr) THEN "ValidationError"
    ELSE IF ~ ExisteServicio(sv[1]) THEN "NotFound"
    ELSE IF existe(ev_id, sv[1]) THEN "AlreadyAttached"
    ELSE "Insertar"

\* EventoServicio(evento_id, servicio_id, precio_acordado) as stored.
NuevaFila(ev_id, sv_id, milesimas) ==
    [id |-> sec_fila, evento_id |-> ev_id, servicio_id |-> sv_id,
     precio_acordado |-> Numeric2(milesimas)]

\* The INSERT of cliente_agregar_servicio.  The table has no unique index on
\* (evento_id, servicio_id); its foreign keys require the event and the
\* service to exist.
agregar_insertar(c, ev_id, sv_id, milesimas) ==
    IF ExisteEvento(ev_id) /\ ExisteServicio(sv_id)
    THEN /\ evento_servicio' = evento_servicio \cup {NuevaFila(ev_id, sv_id, milesimas)}
         /\ sec_fila' = sec_fila + 1
         /\ previo' = IF existe(ev_id, sv_id) THEN PrevioNada
                      ELSE [evento |-> ev_id, servicio |-> sv_id,
                            filas |-> evento_servicio,
                            total |-> calcular_total(EventoDe(ev_id))]
         /\ resp' = Respuesta("agregar", "Ok", {}, 0)
    ELSE /\ resp' = Respuesta("agregar", "IntegrityError", {}, 0)
         /\ UNCHANGED <<evento_servicio, sec_fila, previo>>

\* cliente_agregar_servicio, the request running alone.
cliente_agregar_servicio(c, ev_id, sv, pr) ==
    /\ pend[c].op = "nada"
    /\ sec_fila <= MaxFilas
    /\ LET r == agregar_verificar(c, ev_id, sv, pr) IN
       IF r = "Insertar"
       THEN agregar_insertar(c, ev_id, sv[1], pr[1])
       ELSE /\ resp' = Respuesta("agregar", r, {}, 0)
            /\ UNCHANGED <<evento_servicio, sec_fila, previo>>
    /\ UNCHANGED <<usuarios, servicios, eventos, sec_usuario, sesion, pend>>
    /\ UNCHANGED <<proveedores, sec_servicio, sec_proveedor, sec_evento>>

\* Faulty variant of filas_a_eliminar: the filter forgets the event.
filas_del_servicio(ev_id, sv_id) == {f \in evento_servicio : f.servicio_id = sv_id}

\* The query of cliente_eliminar_servicio: filter_by(evento_id, servicio_id).
filas_a_eliminar(ev_id, sv_id) ==
    {f \in evento_servicio : f.evento_id = ev_id /\ f.servicio_id = sv_id}

\* cliente_eliminar_servicio before the DELETE: the response that ends the
\* request, or "Borrar" when .first_or_404() found a row.
eliminar_verificar(c, ev_id, sv_id) ==
    IF ~ login_required(c) THEN "LoginRequired"
    ELSE IF ~ ExisteEvento(ev_id) THEN "NotFound"
    ELSE IF ~ eliminar_permitido(EventoDe(ev_id), current_user(c)) THEN "Forbidden"
    ELSE IF filas_a_eliminar(ev_id, sv_id) = {} THEN "NotFound"
    ELSE "Borrar"

\* cliente_eliminar_servicio: .first_or_404() picks one row of the pair (which
\* one is the database's choice when there are several) and deletes it.
cliente_eliminar_servicio(c, ev_id, sv_id) ==
    /\ pend[c].op = "nada"
    /\ LET r == eliminar_verificar(c, ev_id, sv_id) IN
       IF r = "Borrar"
       THEN \E f \in filas_a_eliminar(ev_id, sv_id) :
            /\ evento_servicio' = evento_servicio \ {f}
            /\ resp' = Respuesta("eliminar", "Ok", {}, 0)
            /\ previo' = IF previo.evento = ev_id /\ previo.servicio = sv_id
                            /\ resp.op = "agregar" /\ resp.res = "Ok"
                         THEN previo ELSE PrevioNada
       ELSE /\ resp' = Respuesta("eliminar", r, {}, 0)
            /\ UNCHANGED <<evento_servicio, previo>>
    /\ UNCHANGED <<usuarios, servicios, eventos, sec_usuario, sec_fila, sesion, pend>>
    /\ UNCHANGED <<proveedores, sec_servicio, sec_proveedor, sec_evento>>

\* ----------------------------------------------------------- delete a service

\* Faulty variant of en_uso: the count filters on the wrong column.
en_uso_columna(sv_id) == Cardinality({f \in evento_servicio : f.evento_id = sv_id})

\* "en_uso" of admin_eliminar_servicio: the rows that reference the service.
en_uso(sv_id) == Cardinality({f \in evento_servicio : f.servicio_id = sv_id})

\* admin_eliminar_servicio up to the in-use test: the response that ends the
\* request, or "Borrar" when it goes on to the DELETE.
eliminar_servicio_verificar(c, sv_id) ==
    IF admin_required(c) # "Pasa" THEN admin_required(c)
    ELSE IF ~ ExisteServicio(sv_id) THEN "NotFound"
    ELSE IF en_uso(sv_id) > 0 THEN "InUse"
    ELSE "Borrar"

\* Faulty variant of Referenciado: the column carries no foreign key.
ReferenciadoSinFK(sv_id) == FALSE

\* The foreign key of evento_servicio.servicio_id: a service row that a row
\* references cannot be deleted.
Referenciado(sv_id) == \E f \in evento_servicio : f.servicio_id = sv_id

\* The DELETE of admin_eliminar_servicio: refused by the foreign key while a
\* row references the service; a row already gone makes the flush fail too.
eliminar_servicio_borrar(c, sv_id) ==
    IF ~ ExisteServicio(sv_id)
    THEN /\ resp' = Respuesta("eliminar_servicio", "StaleData", {}, 0)
         /\ UNCHANGED servicios
    ELSE IF Referenciado(sv_id)
    THEN /\ resp' = Respuesta("eliminar_servicio", "IntegrityError", {}, 0)
         /\ UNCHANGED servicios
    ELSE /\ servicios' = {sv \in servicios : sv.id # sv_id}
         /\ resp' = Respuesta("eliminar_servicio", "Ok", {}, 0)

\* admin_eliminar_servicio, the request running alone.
admin_eliminar_servicio(c, sv_id) ==
    /\ pend[c].op = "nada"
    /\ LET r == eliminar_servicio_verificar(c, sv_id) IN
       IF r = "Borrar"
       THEN eliminar_servicio_borrar(c, sv_id)
       ELSE /\ resp' = Respuesta("eliminar_servicio", r, {},
                                 IF r = "InUse" THEN en_uso(sv_id) ELSE 0)
            /\ UNCHANGED servicios
    /\ previo' = PrevioNada
    /\ UNCHANGED <<usuarios, eventos, evento_servicio, sec_usuario, sec_fila,
                   sesion, pend>>
    /\ UNCHANGED <<proveedores, sec_servicio, sec_proveedor, sec_evento>>

\* ------------------------------------------- specification: booking, pricing

EventoIds == {1, 2, 9}
ServicioForm == {<<>>, <<1>>, <<2>>, <<9>>}
ServicioIds == {1, 2, 9}
\* precio_acordado as submitted, in thousandths: missing, 0, -5.00, 450.00
PrecioForm == {<<>>, <<0>>, <<-5000>>, <<450000>>}

\* Browser 1 is the administrator, 2 is alice, 3 is bob, the others anonymous.
SesionSemilla == [c \in Clientes |-> IF c <= 3 THEN c ELSE ANONIMO]

\* Catering (base price 500.00) and a second service; alice and bob own one
\* event each.
Init ==
    /\ usuarios = {AdminSemilla, AliceSemilla, BobSemilla}
    /\ servicios = {[id |-> 1, precio_base |-> 50000, disponible |-> TRUE],
                    [id |-> 2, precio_base |-> 12000, disponible |-> TRUE]}
    /\ eventos = {[id |-> 1, usuario_id |-> 2, estado |-> "pendiente", titulo |-> "Beach Wedding"],
                  [id |-> 2, usuario_id |-> 3, estado |-> "pendiente", titulo |-> "Boda"]}
    /\ evento_servicio = {}
    /\ sec_usuario = 4
    /\ sec_fila = 1
    /\ sesion = SesionSemilla
    /\ pend = [c \in Clientes |-> PendNada]
    /\ resp = RespNada
    /\ previo = PrevioNada
    /\ proveedores = {}
    /\ sec_servicio = 3
    /\ sec_proveedor = 1
    /\ sec_evento = 3

Next ==
    \/ \E c \in Clientes, ev \in EventoIds, sv \in ServicioForm, pr \in PrecioForm :
          cliente_agregar_servicio(c, ev, sv, pr)
    \/ \E c \in Clientes, ev \in EventoIds, sv \in ServicioIds :
          cliente_eliminar_servicio(c, ev, sv)
    \/ \E c \in Clientes, sv \in ServicioIds : admin_eliminar_servicio(c, sv)

Spec == Init /\ [][Next]_vars

\* --------------------------------- specification: interleaved statements

\* cliente_agregar_servicio, first statement group: the reads up to the
\* existence check.  The request then holds what it read until its INSERT.
agregar_inicio(c, ev_id, sv, pr) ==
    /\ pend[c].op = "nada"
    /\ sec_fila + Cardinality({d \in Clientes : pend[d].op = "agregar"}) <= MaxFilas
    /\ LET r == agregar_verificar(c, ev_id, sv, pr) IN
       IF r = "Insertar"
       THEN /\ pend' = [pend EXCEPT ![c] = [PendNada EXCEPT !.op = "agregar",
                             !.evento = ev_id, !.servicio = sv[1], !.precio = pr[1]]]
            /\ UNCHANGED resp
       ELSE /\ resp' = Respuesta("agregar", r, {}, 0)
            /\ UNCHANGED pend
    /\ UNCHANGED <<usuarios, servicios, eventos, evento_servicio, sec_usuario,
                   sec_fila, sesion, previo>>
    /\ UNCHANGED <<proveedores, sec_servicio, sec_proveedor, sec_evento>>

\* cliente_agregar_servicio, db.session.add + db.session.commit().
agregar_commit(c) ==
    /\ pend[c].op = "agregar"
    /\ pend' = [pend EXCEPT ![c] = PendNada]
    /\ agregar_insertar(c, pend[c].evento, pend[c].servicio, pend[c].precio)
    /\ UNCHANGED <<usuarios, servicios, eventos, sec_usuario, sesion>>
    /\ UNCHANGED <<proveedores, sec_servicio, sec_proveedor, sec_evento>>

\* admin_eliminar_servicio, first statement group: the lookup and the count.
eliminar_servicio_inicio(c, sv_id) ==
    /\ pend[c].op = "nada"
    /\ LET r == eliminar_servicio_verificar(c, sv_id) IN
       IF r = "Borrar"
       THEN /\ pend' = [pend EXCEPT ![c] = [PendNada EXCEPT !.op = "eliminar_servicio",
                             !.servicio = sv_id]]
            /\ UNCHANGED resp
       ELSE /\ resp' = Respuesta("eliminar_servicio", r, {},
                                 IF r = "InUse" THEN en_uso(sv_id) ELSE 0)
            /\ UNCHANGED pend
    /\ UNCHANGED <<usuarios, servicios, eventos, evento_servicio, sec_usuario,
                   sec_fila, sesion, previo>>
    /\ UNCHANGED <<proveedores, sec_servicio, sec_proveedor, sec_evento>>

\* admin_eliminar_servicio, db.session.delete + db.session.commit().
eliminar_servicio_commit(c) ==
    /\ pend[c].op = "eliminar_servicio"
    /\ pend' = [pend EXCEPT ![c] = PendNada]
    /\ eliminar_servicio_borrar(c, pend[c].servicio)
    /\ previo' = PrevioNada
    /\ UNCHANGED <<usuarios, eventos, evento_servicio, sec_usuario, sec_fila, sesion>>
    /\ UNCHANGED <<proveedores, sec_servicio, sec_proveedor, sec_evento>>

\* The requests that interleave are those of the administrator's and alice's
\* browsers, both admitted to alice's event, at one price.
ClientesConc == {c \in Clientes : sesion[c] \in {AdminSemilla.id, AliceSemilla.id}}
PrecioConc == {<<450000>>}

NextConc ==
    \/ \E c \in ClientesConc, ev \in EventoIds, sv \in ServicioForm, pr \in PrecioConc :
          agregar_inicio(c, ev, sv, pr)
    \/ \E c \in ClientesConc : agregar_commit(c)
    \/ \E c \in ClientesConc, ev \in EventoIds, sv \in ServicioIds :
          cliente_eliminar_servicio(c, ev, sv)
    \/ \E c \in ClientesConc, sv \in ServicioIds : eliminar_servicio_inicio(c, sv)
    \/ \E c \in ClientesConc : eliminar_servicio_commit(c)

SpecConc == Init /\ [][NextConc]_vars

\* ------------------------------------------------------- view, edit, cancel

\* cliente_ver_evento up to the render: the response of the request.
ver_verificar(c, ev_id) ==
    IF ~ login_required(c) THEN "LoginRequired"
    ELSE IF ~ ExisteEvento(ev_id) THEN "NotFound"
    ELSE IF ~ ver_permitido(EventoDe(ev_id), current_user(c)) THEN "Forbidden"
    ELSE "Ok"

\* cliente_ver_evento
cliente_ver_evento(c, ev_id) ==
    /\ pend[c].op = "nada"
    /\ resp' = Respuesta("ver", ver_verificar(c, ev_id), {}, 0)
    /\ UNCHANGED <<usuarios, servicios, eventos, evento_servicio, sec_usuario,
                   sec_fila, sesion, pend, previo>>
    /\ UNCHANGED <<proveedores, sec_servicio, sec_proveedor, sec_evento>>

\* The choices of EventoForm.estado.
EstadosEvento == {"pendiente", "confirmado", "cancelado", "completado"}

\* form.estado.data of EventoForm(obj=...): the submitted value (<<v>>) when
\* the request carries the field, the object's value when it does not (<<>>).
\* A form built without an object has "" for the object's value.
EventoForm_estado(obj_estado, estado) ==
    IF estado = <<>> THEN obj_estado ELSE estado[1]

\* EventoForm.validate_on_submit(): the field validators pass (campos_ok) and
\* the data of estado is one of the SelectField's choices.
EventoForm_valido(campos_ok, estado) == campos_ok /\ estado \in EstadosEvento

\* cliente_editar_evento before any write: the response that ends the request,
\* or "Guardar" when it goes on to the assignments.
editar_verificar(c, ev_id, metodo, campos_ok, fecha_ok, estado) ==
    IF ~ login_required(c) THEN "LoginRequired"
    ELSE IF ~ ExisteEvento(ev_id) THEN "NotFound"
    ELSE IF ~ editar_permitido(EventoDe(ev_id), current_user(c)) THEN "Forbidden"
    ELSE IF metodo = "GET" THEN "Render"
    ELSE IF ~ EventoForm_valido(campos_ok,
                                EventoForm_estado(EventoDe(ev_id).estado, estado))
         THEN "FormError"
    ELSE IF ~ fecha_ok THEN "ValidationError"
    ELSE "Guardar"

\* The assignments of cliente_editar_evento: the submitted fields, and the
\* submitted estado when the actor is an administrator.
EventoEditado(ev, u, titulo, estado) ==
    [ev EXCEPT !.titulo = titulo,
               !.estado = IF es_admin(u) THEN estado ELSE ev.estado]

\* cliente_editar_evento
cliente_editar_evento(c, ev_id, metodo, campos_ok, fecha_ok, titulo, estado) ==
    /\ pend[c].op = "nada"
    /\ LET r == editar_verificar(c, ev_id, metodo, campos_ok, fecha_ok, estado) IN
       IF r = "Guardar"
       THEN /\ eventos' = (eventos \ {EventoDe(ev_id)})
                          \cup {EventoEditado(EventoDe(ev_id), current_user(c), titulo,
                                   EventoForm_estado(EventoDe(ev_id).estado, estado))}
            /\ resp' = Respuesta("editar", "Ok", {}, 0)
       ELSE /\ resp' = Respuesta("editar", r, {}, 0)
            /\ UNCHANGED eventos
    /\ UNCHANGED <<usuarios, servicios, evento_servicio, sec_usuario, sec_fila,
                   sesion, pend, previo>>
    /\ UNCHANGED <<proveedores, sec_servicio, sec_proveedor, sec_evento>>

\* cliente_cancelar_evento before the write: the response that ends the
\* request, or "Cancelar" when it goes on to the assignment.
cancelar_verificar(c, ev_id) ==
    IF ~ login_required(c) THEN "LoginRequired"
    ELSE IF ~ ExisteEvento(ev_id) THEN "NotFound"
    ELSE IF ~ cancelar_permitido(EventoDe(ev_id), current_user(c)) THEN "Forbidden"
    ELSE "Cancelar"

\* Faulty variant of EventoCancelado: an event that is completado is left alone.
EventoCanceladoSiAbierto(ev) ==
    IF ev.estado = "completado" THEN ev ELSE [ev EXCEPT !.estado = "cancelado"]

\* "evento.estado = 'cancelado'" of cliente_cancelar_evento.
EventoCancelado(ev) == [ev EXCEPT !.estado = "cancelado"]

\* cliente_cancelar_evento
cliente_cancelar_evento(c, ev_id) ==
    /\ pend[c].op = "nada"
    /\ LET r == cancelar_verificar(c, ev_id) IN
       IF r = "Cancelar"
       THEN /\ eventos' = (eventos \ {EventoDe(ev_id)})
                          \cup {EventoCancelado(EventoDe(ev_id))}
            /\ resp' = Respuesta("cancelar", "Ok", {}, 0)
       ELSE /\ resp' = Respuesta("cancelar", r, {}, 0)
            /\ UNCHANGED eventos
    /\ UNCHANGED <<usuarios, servicios, evento_servicio, sec_usuario, sec_fila,
                   sesion, pend, previo>>
    /\ UNCHANGED <<proveedores, sec_servicio, sec_proveedor, sec_evento>>

\* --------------------------------------------- specification: event handlers

Titulos == {"Boda"}
\* estado as submitted: the four choices, a value that is none of them, an
\* empty value, and a request without the field.
EstadoForm == {<<e>> : e \in EstadosEvento \cup {"otro", ""}} \cup {<<>>}
\* One service at one price: the rows only have to exist here.
ServicioEvento == {<<1>>}
PrecioEvento == {<<>>, <<450000>>}
\* The edit requests: a GET, a POST whose fields fail validation, a POST whose
\* date does not parse, and the POSTs with valid fields, each title and each
\* submitted estado.
EditarForm ==
    {[metodo |-> "GET", campos_ok |-> TRUE, fecha_ok |-> TRUE,
      titulo |-> "Boda", estado |-> <<"pendiente">>],
     [metodo |-> "POST", campos_ok |-> FALSE, fecha_ok |-> TRUE,
      titulo |-> "Boda", estado |-> <<"pendiente">>],
     [metodo |-> "POST", campos_ok |-> TRUE, fecha_ok |-> FALSE,
      titulo |-> "Boda", estado |-> <<"pendiente">>]}
    \cup {[metodo |-> "POST", campos_ok |-> TRUE, fecha_ok |-> TRUE,
           titulo |-> t, estado |-> e] : t \in Titulos, e \in EstadoForm}

NextEvento ==
    \/ \E c \in Clientes, ev \in EventoIds : cliente_ver_evento(c, ev)
    \/ \E c \in Clientes, ev \in EventoIds, f \in EditarForm :
          cliente_editar_evento(c, ev, f.metodo, f.campos_ok, f.fecha_ok, f.titulo, f.estado)
    \/ \E c \in Clientes, ev \in EventoIds : cliente_cancelar_evento(c, ev)
    \/ \E c \in Clientes, ev \in EventoIds, sv \in ServicioEvento, pr \in PrecioEvento :
          cliente_agregar_servicio(c, ev, sv, pr)
    \/ \E c \in Clientes, ev \in EventoIds, sv \in ServicioEvento :
          cliente_eliminar_servicio(c, ev, sv[1])

SpecEvento == Init /\ [][NextEvento]_vars

\* ------------------------------------------------------------ create an event

\* cliente_nuevo_evento before the INSERT: the response that ends the request,
\* or "Insertar".  The form is built without an object, so a request without
\* estado has no data for the field.
nuevo_verificar(c, metodo, campos_ok, fecha_ok, estado) ==
    IF ~ login_required(c) THEN "LoginRequired"
    ELSE IF metodo = "GET" THEN "Render"
    ELSE IF ~ EventoForm_valido(campos_ok, EventoForm_estado("", estado)) THEN "FormError"
    ELSE IF ~ fecha_ok THEN "ValidationError"
    ELSE "Insertar"

\* Faulty variant of NuevoEvento: the row takes the estado of the form.
NuevoEventoEstadoForm(u, titulo, estado) ==
    [id |-> sec_evento, usuario_id |-> u.id, estado |-> estado, titulo |-> titulo]

\* Evento(...) of cliente_nuevo_evento: the owner is the current user and
\* estado is 'pendiente', whatever form.estado.data holds.
NuevoEvento(u, titulo, estado) ==
    [id |-> sec_evento, usuario_id |-> u.id, estado |-> "pendiente", titulo |-> titulo]

\* cliente_nuevo_evento
cliente_nuevo_evento(c, metodo, campos_ok, fecha_ok, titulo, estado) ==
    /\ pend[c].op = "nada"
    /\ sec_evento <= MaxEventos
    /\ LET r == nuevo_verificar(c, metodo, campos_ok, fecha_ok, estado) IN
       IF r = "Insertar"
       THEN /\ eventos' = eventos \cup {NuevoEvento(current_user(c), titulo,
                                                     EventoForm_estado("", estado))}
            /\ sec_evento' = sec_evento + 1
            /\ resp' = Respuesta("nuevo", "Ok", {}, 0)
       ELSE /\ resp' = Respuesta("nuevo", r, {}, 0)
            /\ UNCHANGED <<eventos, sec_evento>>
    /\ UNCHANGED <<usuarios, servicios, evento_servicio, sec_usuario, sec_fila,
                   sesion, pend, previo>>
    /\ UNCHANGED <<proveedores, sec_servicio, sec_proveedor>>

\* ------------------------------------------ specification: event lifecycle

\* Event ids of the edit and cancel routes: alice's event, the first event
\* created, and an id no event has.
EventoIdsCiclo == {1, 3, 9}

NextCiclo ==
    \/ \E c \in Clientes, f \in EditarForm :
          cliente_nuevo_evento(c, f.metodo, f.campos_ok, f.fecha_ok, f.titulo, f.estado)
    \/ \E c \in Clientes, ev \in EventoIdsCiclo, f \in EditarForm :
          cliente_editar_evento(c, ev, f.metodo, f.campos_ok, f.fecha_ok, f.titulo, f.estado)
    \/ \E c \in Clientes, ev \in EventoIdsCiclo : cliente_cancelar_evento(c, ev)

SpecCiclo == Init /\ [][NextCiclo]_vars

\* ------------------------------------------------------------ account admin

\* Faulty variant of es_propia_cuenta: the row is compared with the id, never equal.
es_propia_cuenta_nunca(usuario, actor) == FALSE

\* "usuario.id == current_user.id" of admin_toggle_usuario_activo.
es_propia_cuenta(usuario, actor) == usuario.id = actor.id

\* admin_toggle_usuario_activo before the write: the response that ends the
\* request, or "Cambiar" when it goes on to flip the flag.
toggle_verificar(c, usuario_id) ==
    IF admin_required(c) # "Pasa" THEN admin_required(c)
    ELSE IF ~ \E u \in usuarios : u.id = usuario_id THEN "NotFound"
    ELSE IF es_propia_cuenta(CHOOSE u \in usuarios : u.id = usuario_id, current_user(c))
         THEN "SelfDeactivationForbidden"
    ELSE "Cambiar"

\* admin_toggle_usuario_activo; the response names the target account.
admin_toggle_usuario_activo(c, usuario_id) ==
    /\ pend[c].op = "nada"
    /\ LET r == toggle_verificar(c, usuario_id) IN
       IF r = "Cambiar"
       THEN LET usuario == CHOOSE u \in usuarios : u.id = usuario_id IN
            /\ usuarios' = (usuarios \ {usuario})
                           \cup {[usuario EXCEPT !.activo = ~ usuario.activo]}
            /\ resp' = Respuesta("toggle", "Ok", {}, usuario_id)
       ELSE /\ resp' = Respuesta("toggle", r, {}, usuario_id)
            /\ UNCHANGED usuarios
    /\ UNCHANGED <<servicios, eventos, evento_servicio, sec_usuario, sec_fila,
                   sesion, pend, previo>>
    /\ UNCHANGED <<proveedores, sec_servicio, sec_proveedor, sec_evento>>

\* ------------------------------------------- specification: account admin

RootSemilla == [id |-> 3, username |-> "root", email |-> "root@example.com",
                rol |-> "admin", activo |-> TRUE]

UsuarioIds == {1, 2, 3, 4, 9}

\* Two administrators and alice; browsers 1 and 3 are the administrators',
\* browser 2 is alice's, the others are anonymous and may register.
InitAdmin ==
    /\ usuarios = {AdminSemilla, AliceSemilla, RootSemilla}
    /\ servicios = {}
    /\ eventos = {}
    /\ evento_servicio = {}
    /\ sec_usuario = 4
    /\ sec_fila = 1
    /\ sesion = [c \in Clientes |-> IF c <= 3 THEN c ELSE ANONIMO]
    /\ pend = [c \in Clientes |-> PendNada]
    /\ resp = RespNada
    /\ previo = PrevioNada
    /\ proveedores = {}
    /\ sec_servicio = 1
    /\ sec_proveedor = 1
    /\ sec_evento = 1

NextAdmin ==
    \/ \E c \in Clientes, id \in UsuarioIds : admin_toggle_usuario_activo(c, id)
    \/ \E c \in Clientes, ok \in BOOLEAN, u \in Usernames, e \in Emails :
          registro_validar(c, ok, u, e)
    \/ \E c \in Clientes : registro_commit(c)

SpecAdmin == InitAdmin /\ [][NextAdmin]_vars

\* ----------------------------------------------------------- login, logout

\* "usuario" of login: the row filter_by(username=...).first() finds, if any
\* (username is unique, so there is at most one).
usuario_por_username(username) == {u \in usuarios : u.username = username}

\* Faulty variant of cuenta_activa: UserMixin.is_active, which is always True.
cuenta_activa_mixin(usuario) == TRUE

\* "usuario.activo" as login tests it.
cuenta_activa(usuario) == usuario.activo

\* login before login_user: the response that ends the request, or "Ok" when
\* it goes on to open the session.  campos_ok is LoginForm.validate_on_submit()
\* (username of 3 to 80 characters, password not empty); password_ok is the
\* verdict of bcrypt.check_password_hash for the row found.
login_verificar(c, campos_ok, username, password_ok) ==
    IF is_authenticated(c) THEN "Redirect"
    ELSE IF ~ campos_ok THEN "FormError"
    ELSE IF usuario_por_username(username) = {} \/ ~ password_ok THEN "InvalidCredentials"
    ELSE IF ~ cuenta_activa(CHOOSE u \in usuario_por_username(username) : TRUE)
         THEN "AccountDisabled"
    ELSE "Ok"

\* login
login(c, campos_ok, username, password_ok) ==
    /\ pend[c].op = "nada"
    /\ LET r == login_verificar(c, campos_ok, username, password_ok) IN
       /\ resp' = Respuesta("login", r, {}, 0)
       /\ sesion' = IF r = "Ok"
                    THEN [sesion EXCEPT ![c] =
                             (CHOOSE u \in usuario_por_username(username) : TRUE).id]
                    ELSE sesion
    /\ UNCHANGED <<usuarios, servicios, eventos, evento_servicio, sec_usuario,
                   sec_fila, pend, previo>>
    /\ UNCHANGED <<proveedores, sec_servicio, sec_proveedor, sec_evento>>

\* logout
logout(c) ==
    /\ pend[c].op = "nada"
    /\ IF login_required(c)
       THEN /\ sesion' = [sesion EXCEPT ![c] = ANONIMO]
            /\ resp' = Respuesta("logout", "Ok", {}, 0)
       ELSE /\ resp' = Respuesta("logout", "LoginRequired", {}, 0)
            /\ UNCHANGED sesion
    /\ UNCHANGED <<usuarios, servicios, eventos, evento_servicio, sec_usuario,
                   sec_fila, pend, previo>>
    /\ UNCHANGED <<proveedores, sec_servicio, sec_proveedor, sec_evento>>

\* ------------------------------------------------- specification: sessions

\* Usernames as typed in the login form: the three accounts and an unknown one.
LoginUsernames == {"admin", "alice", "root", "nadie"}

\* The browsers that log in and out.
ClientesSesion == {c \in Clientes : c <= 3}

\* Two administrators and alice; only browser 1 holds a session, that of the
\* first administrator.
InitSesion ==
    /\ usuarios = {AdminSemilla, AliceSemilla, RootSemilla}
    /\ servicios = {}
    /\ eventos = {}
    /\ evento_servicio = {}
    /\ sec_usuario = 4
    /\ sec_fila = 1
    /\ sesion = [c \in Clientes |-> IF c = 1 THEN AdminSemilla.id ELSE ANONIMO]
    /\ pend = [c \in Clientes |-> PendNada]
    /\ resp = RespNada
    /\ previo = PrevioNada
    /\ proveedores = {}
    /\ sec_servicio = 1
    /\ sec_proveedor = 1
    /\ sec_evento = 1

NextSesion ==
    \/ \E c \in ClientesSesion, ok \in BOOLEAN, u \in LoginUsernames, pw \in BOOLEAN :
          login(c, ok, u, pw)
    \/ \E c \in ClientesSesion : logout(c)
    \/ \E c \in ClientesSesion, id \in UsuarioIds : admin_toggle_usuario_activo(c, id)

SpecSesion == InitSesion /\ [][NextSesion]_vars

\* ------------------------------------------------------- catalog: services

\* ServicioForm.validate_on_submit(): the other field validators pass
\* (campos_ok; FALSE also for a GET) and precio_base, in thousandths, is
\* present and at least 0.01.
ServicioForm_valido(campos_ok, precio) ==
    campos_ok /\ precio # <<>> /\ precio[1] >= 10

\* admin_nuevo_servicio before the INSERT: the response that ends the request
\* (that of the admin_required decorator first), or "Insertar".
nuevo_servicio_verificar(c, campos_ok, precio) ==
    IF admin_required(c) # "Pasa" THEN admin_required(c)
    ELSE IF ~ ServicioForm_valido(campos_ok, precio) THEN "FormError"
    ELSE "Insertar"

\* admin_nuevo_servicio
admin_nuevo_servicio(c, campos_ok, precio, disponible) ==
    /\ pend[c].op = "nada"
    /\ sec_servicio + sec_proveedor < MaxCatalogo
    /\ LET r == nuevo_servicio_verificar(c, campos_ok, precio) IN
       IF r = "Insertar"
       THEN /\ servicios' = servicios \cup
                    {[id |-> sec_servicio, precio_base |-> Numeric2(precio[1]),
                      disponible |-> disponible]}
            /\ sec_servicio' = sec_servicio + 1
            /\ resp' = Respuesta("nuevo_servicio", "Ok", {}, 0)
       ELSE /\ resp' = Respuesta("nuevo_servicio", r, {}, 0)
            /\ UNCHANGED <<servicios, sec_servicio>>
    /\ UNCHANGED <<usuarios, eventos, evento_servicio, sec_usuario, sec_fila,
                   sesion, pend, previo, proveedores, sec_proveedor, sec_evento>>

\* admin_editar_servicio before the assignments: the response that ends the
\* request, or "Guardar".
editar_servicio_verificar(c, sv_id, campos_ok, precio) ==
    IF admin_required(c) # "Pasa" THEN admin_required(c)
    ELSE IF ~ ExisteServicio(sv_id) THEN "NotFound"
    ELSE IF ~ ServicioForm_valido(campos_ok, precio) THEN "FormError"
    ELSE "Guardar"

\* The assignments of admin_editar_servicio: fields of the servicio row only.
ServicioEditado(sv, precio, disponible) ==
    [sv EXCEPT !.precio_base = Numeric2(precio[1]), !.disponible = disponible]

\* admin_editar_servicio
admin_editar_servicio(c, sv_id, campos_ok, precio, disponible) ==
    /\ pend[c].op = "nada"
    /\ LET r == editar_servicio_verificar(c, sv_id, campos_ok, precio) IN
       IF r = "Guardar"
       THEN LET sv == CHOOSE x \in servicios : x.id = sv_id IN
            /\ servicios' = (servicios \ {sv}) \cup {ServicioEditado(sv, precio, disponible)}
            /\ resp' = Respuesta("editar_servicio", "Ok", {}, 0)
       ELSE /\ resp' = Respuesta("editar_servicio", r, {}, 0)
            /\ UNCHANGED servicios
    /\ UNCHANGED <<usuarios, eventos, evento_servicio, sec_usuario, sec_fila,
                   sesion, pend, previo>>
    /\ UNCHANGED <<proveedores, sec_servicio, sec_proveedor, sec_evento>>

\* -------------------------------------------------------- catalog: vendors

\* admin_nuevo_proveedor; campos_ok is ProveedorForm.validate_on_submit().
admin_nuevo_proveedor(c, campos_ok, activo) ==
    /\ pend[c].op = "nada"
    /\ sec_servicio + sec_proveedor < MaxCatalogo
    /\ IF admin_required(c) # "Pasa"
       THEN /\ resp' = Respuesta("nuevo_proveedor", admin_required(c), {}, 0)
            /\ UNCHANGED <<proveedores, sec_proveedor>>
       ELSE IF ~ campos_ok
       THEN /\ resp' = Respuesta("nuevo_proveedor", "FormError", {}, 0)
            /\ UNCHANGED <<proveedores, sec_proveedor>>
       ELSE /\ proveedores' = proveedores \cup {[id |-> sec_proveedor, activo |-> activo]}
            /\ sec_proveedor' = sec_proveedor + 1
            /\ resp' = Respuesta("nuevo_proveedor", "Ok", {}, 0)
    /\ UNCHANGED <<usuarios, servicios, eventos, evento_servicio, sec_usuario,
                   sec_fila, sesion, pend, previo, sec_servicio, sec_evento>>

\* Proveedor.query.get
ExisteProveedor(id) == \E p \in proveedores : p.id = id

\* admin_editar_proveedor
admin_editar_proveedor(c, pv_id, campos_ok, activo) ==
    /\ pend[c].op = "nada"
    /\ IF admin_required(c) # "Pasa"
       THEN /\ resp' = Respuesta("editar_proveedor", admin_required(c), {}, 0)
            /\ UNCHANGED proveedores
       ELSE IF ~ ExisteProveedor(pv_id)
       THEN /\ resp' = Respuesta("editar_proveedor", "NotFound", {}, 0)
            /\ UNCHANGED proveedores
       ELSE IF ~ campos_ok
       THEN /\ resp' = Respuesta("editar_proveedor", "FormError", {}, 0)
            /\ UNCHANGED proveedores
       ELSE /\ proveedores' = {IF p.id = pv_id THEN [p EXCEPT !.activo = activo] ELSE p :
                                 p \in proveedores}
            /\ resp' = Respuesta("editar_proveedor", "Ok", {}, 0)
    /\ UNCHANGED <<usuarios, servicios, eventos, evento_servicio, sec_usuario,
                   sec_fila, sesion, pend, previo>>
    /\ UNCHANGED <<sec_servicio, sec_proveedor, sec_evento>>

\* admin_eliminar_proveedor: the row is deleted with no in-use test.
admin_eliminar_proveedor(c, pv_id) ==
    /\ pend[c].op = "nada"
    /\ IF admin_required(c) # "Pasa"
       THEN /\ resp' = Respuesta("eliminar_proveedor", admin_required(c), {}, 0)
            /\ UNCHANGED proveedores
       ELSE IF ~ ExisteProveedor(pv_id)
       THEN /\ resp' = Respuesta("eliminar_proveedor", "NotFound", {}, 0)
            /\ UNCHANGED proveedores
       ELSE /\ proveedores' = {p \in proveedores : p.id # pv_id}
            /\ resp' = Respuesta("eliminar_proveedor", "Ok", {}, 0)
    /\ UNCHANGED <<usuarios, servicios, eventos, evento_servicio, sec_usuario,
                   sec_fila, sesion, pend, previo>>
    /\ UNCHANGED <<sec_servicio, sec_proveedor, sec_evento>>

\* admin_eventos: the list of every event; the response carries their number.
admin_eventos(c) ==
    /\ pend[c].op = "nada"
    /\ resp' = IF admin_required(c) # "Pasa"
               THEN Respuesta("eventos", admin_required(c), {}, 0)
               ELSE Respuesta("eventos", "Ok", {}, Cardinality(eventos))
    /\ UNCHANGED <<usuarios, servicios, eventos, evento_servicio, sec_usuario,
                   sec_fila, sesion, pend, previo>>
    /\ UNCHANGED <<proveedores, sec_servicio, sec_proveedor, sec_evento>>

\* ------------------------------------- specification: administrator's pages

\* The browsers of the administrator and of alice, and an anonymous one.
ClientesCatalogo == {1, 2, 4}
\* The service form: a field that fails validation, a precio_base of 0, and a
\* valid form with precio_base 650.00 that clears disponible.
FormServicio ==
    {[campos_ok |-> FALSE, precio |-> <<650000>>, disponible |-> TRUE],
     [campos_ok |-> TRUE, precio |-> <<0>>, disponible |-> TRUE],
     [campos_ok |-> TRUE, precio |-> <<650000>>, disponible |-> FALSE]}
\* Ids of the service routes: a seeded service, the first one created, none.
ServicioIdsCatalogo == {2, 3, 9}
\* Ids of the vendor routes: the first vendor created, none.
ProveedorIds == {1, 9}
\* Ids of the toggle route: the administrator's own account, alice's, none.
UsuarioIdsCatalogo == {1, 2, 9}

NextCatalogo ==
    \/ \E c \in ClientesCatalogo, f \in FormServicio :
          admin_nuevo_servicio(c, f.campos_ok, f.precio, f.disponible)
    \/ \E c \in ClientesCatalogo, sv \in ServicioIdsCatalogo, f \in FormServicio :
          admin_editar_servicio(c, sv, f.campos_ok, f.precio, f.disponible)
    \/ \E c \in ClientesCatalogo, sv \in ServicioIdsCatalogo : admin_eliminar_servicio(c, sv)
    \/ \E c \in ClientesCatalogo, ok \in BOOLEAN, a \in BOOLEAN :
          admin_nuevo_proveedor(c, ok, a)
    \/ \E c \in ClientesCatalogo, pv \in ProveedorIds, ok \in BOOLEAN, a \in BOOLEAN :
          admin_editar_proveedor(c, pv, ok, a)
    \/ \E c \in ClientesCatalogo, pv \in ProveedorIds : admin_eliminar_proveedor(c, pv)
    \/ \E c \in ClientesCatalogo, id \in UsuarioIdsCatalogo :
          admin_toggle_usuario_activo(c, id)
    \/ \E c \in ClientesCatalogo : admin_eventos(c)

SpecCatalogo == Init /\ [][NextCatalogo]_vars

\* -------------------------------- specification: catalog prices and bookings

NextPrecios ==
    \/ \E c \in ClientesCatalogo, ev \in EventoIds, sv \in ServicioEvento, pr \in PrecioEvento :
          cliente_agregar_servicio(c, ev, sv, pr)
    \/ \E c \in ClientesCatalogo, ev \in EventoIds, sv \in ServicioEvento :
          cliente_eliminar_servicio(c, ev, sv[1])
    \/ \E c \in ClientesCatalogo, sv \in ServicioIds, f \in FormServicio :
          admin_editar_servicio(c, sv, f.campos_ok, f.precio, f.disponible)

SpecPrecios == Init /\ [][NextPrecios]_vars

\* ------------------------------- specification: sessions and deactivation

\* The browsers of the administrator and of alice, both with a session open.
ClientesInactivo == {1, 2}
\* The event form as alice's browser posts it: valid, estado pendiente.
FormInactivo ==
    {f \in EditarForm : f.metodo = "POST" /\ f.campos_ok /\ f.fecha_ok
                        /\ f.estado = <<"pendiente">>}
\* Alice's event.
EventoIdsInactivo == {1}

NextInactivo ==
    \/ \E c \in ClientesInactivo, pw \in BOOLEAN : login(c, TRUE, AliceSemilla.username, pw)
    \/ \E c \in ClientesInactivo : logout(c)
    \/ \E c \in ClientesInactivo : admin_toggle_usuario_activo(c, AliceSemilla.id)
    \/ \E c \in ClientesInactivo, f \in FormInactivo :
          cliente_nuevo_evento(c, f.metodo, f.campos_ok, f.fecha_ok, f.titulo, f.estado)
    \/ \E c \in ClientesInactivo, ev \in EventoIdsInactivo, f \in FormInactivo :
          cliente_editar_evento(c, ev, f.metodo, f.campos_ok, f.fecha_ok, f.titulo, f.estado)
    \/ \E c \in ClientesInactivo, ev \in EventoIdsInactivo : cliente_cancelar_evento(c, ev)
    \/ \E c \in ClientesInactivo, ev \in EventoIdsInactivo, sv \in ServicioEvento,
          pr \in PrecioEvento : cliente_agregar_servicio(c, ev, sv, pr)
    \/ \E c \in ClientesInactivo, ev \in EventoIdsInactivo, sv \in ServicioEvento :
          cliente_eliminar_servicio(c, ev, sv[1])

SpecInactivo == Init /\ [][NextInactivo]_vars

\* ------------------------------------------------------------------ claims

\* Rows of one (event, service) pair, read off the table directly.
ParAgregado(ev_id, sv_id) ==
    \E f \in evento_servicio : f.evento_id = ev_id /\ f.servicio_id = sv_id

\* The browser's account is the event's owner or an administrator.
ActorAdmitido(c, ev_id) ==
    /\ sesion[c] # ANONIMO
    /\ \E u \in usuarios, ev \in eventos :
          /\ u.id = sesion[c]
          /\ ev.id = ev_id
          /\ (u.id = ev.usuario_id \/ u.rol = "admin")

\* C1: in every reachable state, also when attach requests interleave between
\* the existence check and the insert, each (event, service) pair has at most
\* one association row.
C1_UnaFilaPorPar ==
    \A f \in evento_servicio, g \in evento_servicio :
        (f.evento_id = g.evento_id /\ f.servicio_id = g.servicio_id) => f = g

\* C2: no two accounts share a username and no two share an email, also when
\* two registrations pass the form's lookups before either commits.
C2_UsuarioUnico ==
    \A u \in usuarios, v \in usuarios :
        (u.username = v.username \/ u.email = v.email) => u = v

\* C2 witness: a registration that had passed the form's lookups was refused at
\* commit, after another one with the same username or email was stored first.
C2_Testigo ==
    /\ resp.op = "registro"
    /\ resp.res = "IntegrityError"
    /\ Cardinality(usuarios) >= 2

\* C3: a registration whose username (email) is that of a stored account ends
\* with the typed failure DuplicateUsername (DuplicateEmail) and stores
\* nothing, whether the account was stored before the request's lookups or
\* between its lookups and its commit.
C3_FalloTipado ==
    [][\A c \in Clientes :
          /\ \A ok \in BOOLEAN, u \in Usernames, e \in Emails :
                (registro_validar(c, ok, u, e) /\ sesion[c] = ANONIMO) =>
                   /\ (\E x \in usuarios : x.username = u) =>
                         ("DuplicateUsername" \in resp'.errores /\ usuarios' = usuarios)
                   /\ (\E x \in usuarios : x.email = e) =>
                         ("DuplicateEmail" \in resp'.errores /\ usuarios' = usuarios)
          /\ registro_commit(c) =>
                   /\ (\E x \in usuarios : x.username = pend[c].username) =>
                         ("DuplicateUsername" \in resp'.errores /\ usuarios' = usuarios)
                   /\ (\E x \in usuarios : x.email = pend[c].email) =>
                         ("DuplicateEmail" \in resp'.errores /\ usuarios' = usuarios)
      ]_vars

\* C4 as stated: for an admitted actor and an attached pair, whatever price is
\* submitted, the request ends with AlreadyAttached.
C4_Original ==
    \A c \in Clientes, ev \in EventoIds, sv \in ServicioIds, pr \in PrecioForm :
        (ActorAdmitido(c, ev) /\ ParAgregado(ev, sv)) =>
            agregar_verificar(c, ev, <<sv>>, pr) = "AlreadyAttached"

\* C4 as amended: for an admitted actor, an attached pair and a submitted price
\* that is present and not zero, attach ends with AlreadyAttached and changes
\* nothing: the rows (and so each agreed price) and every event's total are
\* as before.
C4_YaAgregado ==
    [][\A c \in Clientes, ev \in EventoIds, sv \in ServicioIds, pr \in PrecioForm :
          ( /\ resp'.op = "agregar"
            /\ pr # <<>>
            /\ pr[1] # 0
            /\ ParAgregado(ev, sv)
            /\ ActorAdmitido(c, ev)
            /\ cliente_agregar_servicio(c, ev, <<sv>>, pr) ) =>
             /\ resp'.res = "AlreadyAttached"
             /\ evento_servicio' = evento_servicio
             /\ \A e \in eventos : calcular_total(e)' = calcular_total(e)
      ]_vars

\* C4 witness: an attach was answered AlreadyAttached while a row exists.
C4_Testigo ==
    /\ resp.op = "agregar"
    /\ resp.res = "AlreadyAttached"
    /\ evento_servicio # {}

\* C5: every stored association has an agreed price greater than zero.
C5_PrecioPositivo == \A f \in evento_servicio : f.precio_acordado > 0

RECURSIVE SumaPorId(_, _)
\* The agreed prices of an event's rows, added up by row id.
SumaPorId(ev_id, n) ==
    IF n = 0 THEN 0
    ELSE SumaPorId(ev_id, n - 1)
         + (IF \E f \in evento_servicio : f.id = n /\ f.evento_id = ev_id
            THEN (CHOOSE f \in evento_servicio : f.id = n).precio_acordado
            ELSE 0)

\* C6: total_cost of every event is the sum of the agreed prices of exactly
\* the rows attached to it, and zero when it has none.
C6_TotalEsSuma ==
    \A ev \in eventos :
        /\ calcular_total(ev) = SumaPorId(ev.id, sec_fila - 1)
        /\ (~ \E f \in evento_servicio : f.evento_id = ev.id) => calcular_total(ev) = 0

\* C6 witness: after two attaches and a detach, one event holds a row and has
\* a total that is not zero, the other event holds none.
C6_Testigo ==
    /\ resp.op = "eliminar"
    /\ resp.res = "Ok"
    /\ \E e1 \in eventos, e2 \in eventos :
          /\ servicios_contratados(e1) # {}
          /\ servicios_contratados(e2) = {}
          /\ calcular_total(e1) # 0

\* C7: a successful attach of a pair that was not attached, followed at once by
\* the detach of the same pair, leaves the association rows and the event's
\* total as they were before the attach.
C7_AgregarEliminar ==
    (resp.op = "eliminar" /\ resp.res = "Ok" /\ previo # PrevioNada) =>
        /\ evento_servicio = previo.filas
        /\ calcular_total(EventoDe(previo.evento)) = previo.total

\* C7 witness: the round trip was made while the other event holds a row of the
\* same service.
C7_Testigo ==
    /\ resp.op = "eliminar"
    /\ resp.res = "Ok"
    /\ previo # PrevioNada
    /\ \E f \in evento_servicio :
          f.evento_id # previo.evento /\ f.servicio_id = previo.servicio

\* C8: delete_service by an administrator on a service that N >= 1 rows
\* reference answers InUse with n = N and leaves services and rows as they
\* were; with no referencing row it removes the service; and no step removes a
\* service that a row references.
C8_EnUso ==
    [][/\ \A c \in Clientes, sv \in ServicioIds :
            ( /\ resp'.op = "eliminar_servicio"
              /\ sesion[c] # ANONIMO
              /\ \E u \in usuarios : u.id = sesion[c] /\ u.rol = "admin"
              /\ \E x \in servicios : x.id = sv
              /\ admin_eliminar_servicio(c, sv) ) =>
               LET N == Cardinality({f \in evento_servicio : f.servicio_id = sv}) IN
               /\ N >= 1 => /\ resp'.res = "InUse"
                            /\ resp'.n = N
                            /\ servicios' = servicios
                            /\ evento_servicio' = evento_servicio
               /\ N = 0 => /\ resp'.res = "Ok"
                           /\ servicios' = {x \in servicios : x.id # sv}
       /\ \A x \in servicios \ servicios' :
             ~ \E f \in evento_servicio : f.servicio_id = x.id
      ]_vars

\* C8 witness: a delete was refused with a count of two.
C8_Testigo ==
    /\ resp.op = "eliminar_servicio"
    /\ resp.res = "InUse"
    /\ resp.n = 2
    /\ Cardinality(servicios) = 2

\* C9: for an authenticated actor and an existing event, each of view, edit,
\* cancel, attach and detach, whatever else is submitted, refuses the request
\* as Forbidden exactly when the actor is neither the event's owner nor an
\* administrator.
C9_MismaPolitica ==
    \A c \in Clientes, ev \in EventoIds :
        (sesion[c] # ANONIMO /\ (\E x \in eventos : x.id = ev)) =>
           LET Rechaza(r) == (r = "Forbidden") <=> ~ ActorAdmitido(c, ev) IN
           /\ Rechaza(ver_verificar(c, ev))
           /\ Rechaza(cancelar_verificar(c, ev))
           /\ \A f \in EditarForm :
                 Rechaza(editar_verificar(c, ev, f.metodo, f.campos_ok, f.fecha_ok, f.estado))
           /\ \A sv \in ServicioForm, pr \in PrecioForm :
                 Rechaza(agregar_verificar(c, ev, sv, pr))
           /\ \A sv \in ServicioIds : Rechaza(eliminar_verificar(c, ev, sv))

\* C9 witness: a detach was refused, after an attach and a cancel had been
\* admitted.
C9_Testigo ==
    /\ resp.op = "eliminar"
    /\ resp.res = "Forbidden"
    /\ evento_servicio # {}
    /\ \E ev \in eventos : ev.estado = "cancelado"

\* C10: toggle_active by an administrator on the administrator's own account
\* answers SelfDeactivationForbidden and changes no account, whatever the
\* account's active flag; on any other existing account it flips that
\* account's active flag and changes nothing else.
C10_Toggle ==
    [][\A c \in Clientes, id \in UsuarioIds :
          ( /\ resp'.op = "toggle"
            /\ sesion[c] # ANONIMO
            /\ \E a \in usuarios : a.id = sesion[c] /\ a.rol = "admin"
            /\ \E t \in usuarios : t.id = id
            /\ admin_toggle_usuario_activo(c, id) ) =>
             IF id = sesion[c]
             THEN resp'.res = "SelfDeactivationForbidden" /\ usuarios' = usuarios
             ELSE /\ resp'.res = "Ok"
                  /\ \A t \in usuarios :
                        IF t.id = id
                        THEN [t EXCEPT !.activo = ~ t.activo] \in usuarios'
                        ELSE t \in usuarios'
                  /\ Cardinality(usuarios') = Cardinality(usuarios)
      ]_vars

\* C10 witness: an administrator whose account is inactive was refused the
\* toggle of that account, while a client account is inactive too.
C10_Testigo ==
    /\ resp.op = "toggle"
    /\ resp.res = "SelfDeactivationForbidden"
    /\ \E u \in usuarios : u.id = resp.n /\ ~ u.activo
    /\ \E u \in usuarios : u.rol = "cliente" /\ ~ u.activo

\* The ids of the administrator accounts.
AdminIds == {u.id : u \in {x \in usuarios : x.rol = "admin"}}

\* C11: every step keeps the role of every stored account, a row that a step
\* adds (by register) has role client and is active, and the administrator
\* accounts are those of the initial state.
C11_RolFijo ==
    [][/\ \A u \in usuarios : \E v \in usuarios' : v.id = u.id /\ v.rol = u.rol
       /\ \A v \in usuarios' :
             (~ \E u \in usuarios : u.id = v.id) => (v.rol = "cliente" /\ v.activo)
       /\ AdminIds = {AdminSemilla.id, RootSemilla.id}
       /\ AdminIds' = {AdminSemilla.id, RootSemilla.id}
      ]_vars

\* C11 witness: an account was registered while one of the administrators is
\* deactivated.
C11_Testigo ==
    /\ resp.op = "registro"
    /\ resp.res = "Ok"
    /\ \E u \in usuarios : u.id = 4 /\ u.rol = "cliente" /\ u.activo
    /\ \E a \in usuarios : a.rol = "admin" /\ ~ a.activo

\* C12 as stated: whoever calls and whatever is typed, authenticate logs the
\* account in exactly when the username exists, the password matches and the
\* account is active; a matching password on an inactive account is answered
\* AccountDisabled; an unknown username or a password that does not match is
\* answered InvalidCredentials.
C12_Original ==
    \A c \in ClientesSesion, ok \in BOOLEAN, un \in LoginUsernames, pw \in BOOLEAN :
        LET hay == \E u \in usuarios : u.username = un
            r == login_verificar(c, ok, un, pw) IN
        /\ (r = "Ok") <=> (hay /\ pw /\ \E u \in usuarios : u.username = un /\ u.activo)
        /\ (hay /\ pw /\ \E u \in usuarios : u.username = un /\ ~ u.activo)
              => r = "AccountDisabled"
        /\ (~ hay \/ ~ pw) => r = "InvalidCredentials"

\* C12 as amended: for a browser that is not logged in and a form that passes
\* its field validation, login opens the session of the account exactly when
\* the username exists, the password matches and the account is active; a
\* matching password on an inactive account is answered AccountDisabled, an
\* unknown username or a password that does not match InvalidCredentials,
\* whatever the active flag; and a login that fails leaves every session as
\* it was.
C12_Autenticar ==
    [][\A c \in ClientesSesion, ok \in BOOLEAN, un \in LoginUsernames, pw \in BOOLEAN :
          (resp'.op = "login" /\ login(c, ok, un, pw)) =>
             LET hay == \E u \in usuarios : u.username = un
                 activa == \E u \in usuarios : u.username = un /\ u.activo IN
             /\ resp'.res # "Ok" => sesion' = sesion
             /\ (sesion[c] = ANONIMO /\ ok) =>
                   /\ (resp'.res = "Ok") <=> (hay /\ pw /\ activa)
                   /\ resp'.res = "Ok" =>
                         /\ \E u \in usuarios : u.username = un /\ sesion'[c] = u.id
                         /\ \A d \in Clientes \ {c} : sesion'[d] = sesion[d]
                   /\ (hay /\ pw /\ ~ activa) => resp'.res = "AccountDisabled"
                   /\ (~ hay \/ ~ pw) => resp'.res = "InvalidCredentials"
      ]_vars

\* C12 witness: a login with a matching password was answered AccountDisabled
\* while another browser holds the session of an active account.
C12_Testigo ==
    /\ resp.op = "login"
    /\ resp.res = "AccountDisabled"
    /\ \E u \in usuarios : ~ u.activo
    /\ \E c \in Clientes, u \in usuarios : sesion[c] = u.id /\ u.activo

\* C13: an edit with valid fields by the event's owner who is not an
\* administrator is accepted whatever estado is submitted (one of the four
\* values, another value, an empty one, or none), stores the other fields and
\* leaves the event's estado as it was; the same edit by an administrator with
\* one of the four values stores that value.
C13_EstadoIgnorado ==
    [][\A c \in Clientes, ev \in EventoIds, f \in EditarForm :
          ( /\ resp'.op = "editar"
            /\ f.metodo = "POST"
            /\ f.campos_ok
            /\ f.fecha_ok
            /\ ActorAdmitido(c, ev)
            /\ cliente_editar_evento(c, ev, f.metodo, f.campos_ok, f.fecha_ok,
                                      f.titulo, f.estado) ) =>
             LET antes == CHOOSE e \in eventos : e.id = ev
                 despues == CHOOSE e \in eventos' : e.id = ev
                 actor == CHOOSE u \in usuarios : u.id = sesion[c] IN
             IF actor.rol # "admin"
             THEN /\ resp'.res = "Ok"
                  /\ despues.titulo = f.titulo
                  /\ despues.estado = antes.estado
             ELSE (f.estado # <<>> /\ f.estado[1] \in EstadosEvento) =>
                     /\ resp'.res = "Ok"
                     /\ despues.estado = f.estado[1]
      ]_vars

\* C14: no step takes an event out of cancelado, and the only step that
\* changes the estado of an event that is completado is a cancel, which makes
\* it cancelado.
C14_Terminal ==
    [][\A e \in eventos, d \in eventos' :
          e.id = d.id =>
             /\ e.estado = "cancelado" => d.estado = "cancelado"
             /\ e.estado = "completado" => d.estado \in {"completado", "cancelado"}
             /\ (e.estado = "completado" /\ d.estado = "cancelado") =>
                   resp'.op = "cancelar"
      ]_vars

C16_Pendiente ==
    [][/\ \A e \in eventos' :
             (~ \E d \in eventos : d.id = e.id) => e.estado = "pendiente"
       /\ \A e \in eventos \cup eventos' :
             e.estado \in {"pendiente", "confirmado", "cancelado", "completado"}
      ]_vars

\* C16 witness: the administrator's create was accepted while an older event
\* is no longer pendiente.
C16_Testigo ==
    /\ resp.op = "nuevo"
    /\ resp.res = "Ok"
    /\ \E e \in eventos :
          e.id = 3 /\ e.estado = "pendiente" /\ e.usuario_id = AdminSemilla.id
    /\ \E e \in eventos : e.estado = "completado"

\* The browser holds no session, or that of an account that is not an
\* administrator.
NoEsAdmin(c) ==
    sesion[c] = ANONIMO \/ \E u \in usuarios : u.id = sesion[c] /\ u.rol # "admin"

\* Nothing stored changes in the step.
NadaCambia ==
    /\ usuarios' = usuarios
    /\ servicios' = servicios
    /\ proveedores' = proveedores
    /\ eventos' = eventos
    /\ evento_servicio' = evento_servicio

\* C17: each administrator-only operation (create, update, delete of a
\* service and of a vendor, toggle_active, the list of all events), requested
\* by an anonymous browser or by an account that is not an administrator, is
\* refused (sent to the login page, or answered Forbidden) and changes no
\* service, vendor, account, event or association.
C17_SoloAdmin ==
    [][\A c \in ClientesCatalogo :
          NoEsAdmin(c) =>
             LET Rechazada == /\ resp'.res = (IF sesion[c] = ANONIMO THEN "LoginRequired"
                                               ELSE "Forbidden")
                              /\ NadaCambia IN
             /\ \A f \in FormServicio :
                   admin_nuevo_servicio(c, f.campos_ok, f.precio, f.disponible) => Rechazada
             /\ \A sv \in ServicioIdsCatalogo, f \in FormServicio :
                   admin_editar_servicio(c, sv, f.campos_ok, f.precio, f.disponible)
                      => Rechazada
             /\ \A sv \in ServicioIdsCatalogo : admin_eliminar_servicio(c, sv) => Rechazada
             /\ \A ok \in BOOLEAN, a \in BOOLEAN :
                   admin_nuevo_proveedor(c, ok, a) => Rechazada
             /\ \A pv \in ProveedorIds, ok \in BOOLEAN, a \in BOOLEAN :
                   admin_editar_proveedor(c, pv, ok, a) => Rechazada
             /\ \A pv \in ProveedorIds : admin_eliminar_proveedor(c, pv) => Rechazada
             /\ \A id \in UsuarioIdsCatalogo : admin_toggle_usuario_activo(c, id) => Rechazada
             /\ admin_eventos(c) => Rechazada
      ]_vars

\* C17 witness: a vendor delete was answered Forbidden while a vendor created
\* by the administrator is stored and an account has been deactivated.
C17_Testigo ==
    /\ resp.op = "eliminar_proveedor"
    /\ resp.res = "Forbidden"
    /\ proveedores # {}
    /\ \E u \in usuarios : ~ u.activo

\* C18: an update of a service, whatever it does to the base price and to
\* the availability, leaves every association row (and so every agreed
\* price), every event and every event's total as they were.
C18_PrecioIndependiente ==
    [][\A c \in ClientesCatalogo, sv \in ServicioIds, f \in FormServicio :
          ( /\ resp'.op = "editar_servicio"
            /\ admin_editar_servicio(c, sv, f.campos_ok, f.precio, f.disponible) ) =>
             /\ evento_servicio' = evento_servicio
             /\ eventos' = eventos
             /\ \A e \in eventos : calcular_total(e)' = calcular_total(e)
      ]_vars

\* C18 witness: the update was stored for a service that a row references at
\* an agreed price other than the old and the new base price.
C18_Testigo ==
    /\ resp.op = "editar_servicio"
    /\ resp.res = "Ok"
    /\ \E f \in evento_servicio, x \in servicios, e \in eventos :
          /\ f.servicio_id = x.id
          /\ f.evento_id = e.id
          /\ x.precio_base = 65000
          /\ ~ x.disponible
          /\ f.precio_acordado = 45000
          /\ calcular_total(e) = 45000

\* C19: in every state reached by toggle requests of browsers that hold an
\* administrator's session (also a session opened before the account was
\* deactivated), at least one administrator account is active.
C19_AdminActivo == \E u \in usuarios : u.rol = "admin" /\ u.activo

\* C20: every association row references an event and a service that are
\* stored, also when an attach commits between the in-use count and the
\* delete of a delete_service for the same service.
C20_Referencias ==
    \A f \in evento_servicio :
        /\ \E e \in eventos : e.id = f.evento_id
        /\ \E x \in servicios : x.id = f.servicio_id

\* C20 witness: a delete that had counted no row was stopped at its commit,
\* after an attach for the same service had committed in between; the row
\* and its service are stored.
C20_Testigo ==
    /\ resp.op = "eliminar_servicio"
    /\ resp.res = "IntegrityError"
    /\ \E f \in evento_servicio, x \in servicios : x.id = f.servicio_id

\* The browser holds the session of an account whose activo flag is false.
CuentaInactiva(c) ==
    sesion[c] # ANONIMO /\ \E u \in usuarios : u.id = sesion[c] /\ ~ u.activo

\* C21: a create, edit, cancel, attach or detach requested through the
\* session of an account whose activo flag is false, also a session opened
\* before the account was deactivated, is not accepted and stores nothing.
C21_InactivaNoActua ==
    [][\A c \in ClientesInactivo :
          CuentaInactiva(c) =>
             LET Rechazada == resp'.res # "Ok" /\ NadaCambia IN
             /\ \A f \in FormInactivo :
                   cliente_nuevo_evento(c, f.metodo, f.campos_ok, f.fecha_ok,
                                        f.titulo, f.estado) => Rechazada
             /\ \A ev \in EventoIdsInactivo, f \in FormInactivo :
                   cliente_editar_evento(c, ev, f.metodo, f.campos_ok, f.fecha_ok,
                                         f.titulo, f.estado) => Rechazada
             /\ \A ev \in EventoIdsInactivo : cliente_cancelar_evento(c, ev) => Rechazada
             /\ \A ev \in EventoIdsInactivo, sv \in ServicioEvento, pr \in PrecioEvento :
                   cliente_agregar_servicio(c, ev, sv, pr) => Rechazada
             /\ \A ev \in EventoIdsInactivo, sv \in ServicioEvento :
                   cliente_eliminar_servicio(c, ev, sv[1]) => Rechazada
      ]_vars

====
